---- MODULE Spec2Model ----
(***************************************************************************)
(* A model of wrenlet, a host facade over the Wren virtual machine.        *)
(*                                                                         *)
(* The repository holds two revisions of the facade side by side:          *)
(*   "wren"  : wren.rs + builder.rs   (RawWren, WrenInner, Cell counters)  *)
(*   "wren2" : wren2.rs + builder2.rs + raw.rs + value.rs                  *)
(*             (WrenPtr, WrenData, WrenHeader with a plain usize counter)  *)
(* The variable `draft` says which of the two is linked; every operation   *)
(* is translated from the revision it names.                               *)
(*                                                                         *)
(* Slot k of the VM is element k+1 of the sequence `slots`.                *)
(*                                                                         *)
(* Six specifications share the variables:                                 *)
(*   Spec      : the lifetime of the VM and its handles (both revisions)   *)
(*   SpecCall  : argument marshalling and the call protocol (wren2)        *)
(*   SpecValue : conversions and the slot array (both revisions)           *)
(*   SpecError : the pending error and the error callback (wren)           *)
(*   SpecInterpret : interpret with its write and error callbacks (both)   *)
(*   SpecAlloc : the allocations handed to the VM (builder.rs)             *)
(***************************************************************************)
EXTENDS Integers, Sequences, FiniteSets, TLC

VARIABLES
    draft,          \* "wren" or "wren2"
    status,         \* "running", or the panic that ended the host's normal flow
    ref_count,      \* WrenHeader.ref_count as stored in the header
    wren_alive,     \* the Wren wrapper has not been dropped yet
    handles,        \* handle id -> [kind, st, log]: the CallHandle / Handle objects
    payload_drops,  \* how many times the embedder payload was dropped in place
    vm_frees,       \* how many times wrenFreeVM was called
    deallocs,       \* how many times the Header+payload allocation was freed
    uaf,            \* a native call was issued against a freed VM
    last_op,        \* what the last lifetime operation was and did
    slots,          \* the VM's slot array (the API stack) of the current VM
    handle_vms,     \* the VMs a live value Handle was taken from (marshalling spec)
    call_op,        \* what the last marshalling operation was and did
    error,          \* WrenHeader.error: the pending error, if any (wren.rs)
    err_op,         \* what the last callback or interpret was and did
    writer,         \* the output sink the VM was built with
    allocs,         \* the live WrenAllocations: data pointer, and what was asked
    mem,            \* the Layout values stored in memory: [at, val]
    alloc_op        \* what the last operation on a WrenAllocation was and did

lifeVars == <<draft, status, ref_count, wren_alive, handles, payload_drops,
              vm_frees, deallocs, uaf, last_op>>
slotVars == <<slots, handle_vms, call_op>>
errVars == <<error, err_op, writer>>
allocVars == <<allocs, mem, alloc_op>>
vars == <<draft, status, ref_count, wren_alive, handles, payload_drops,
          vm_frees, deallocs, uaf, last_op, slots, handle_vms, call_op,
          error, err_op, writer, allocs, mem, alloc_op>>

----------------------------------------------------------------------------
(* Bounds of the model.                                                    *)

\* usize::MAX of the modelled machine: the counter is a narrow unsigned integer.
UsizeMax == 3
\* How many CallHandle / Handle objects one run creates.
MaxHandles == 3
\* How many write/error callbacks one interpret issues.
MaxCallbacks == 2
\* Cap on the payload-drop counter (every further drop is one more double drop).
MaxPayloadDrops == 3
\* Longest argument tuple the model prepares (the code supports MaxArity).
MaxArgs == 2

\* How many distinct messages the error callback is given.
MaxMsgs == 2
\* Longest stack trace the VM reports for one runtime error.
MaxFrames == 3

\* How many WrenAllocations are live at once.
MaxAllocs == 2
\* The addresses of the modelled memory are 1..MemSize.
MemSize == 96

\* Highest slot index the conversion specification addresses.
MaxSlot == 1

\* The longest tuple WrenArguments is implemented for.
MaxArity == 8

Drafts == {"wren", "wren2"}

----------------------------------------------------------------------------
(* Reference counting: the header's counter and its mutators.              *)

\* WrenHeader::increment_ref_count with the check removed (a wrapping add).
increment_ref_count_wrapping(rc) ==
    [panic |-> FALSE, rc |-> (rc + 1) % (UsizeMax + 1)]

\* WrenHeader::increment_ref_count: checked_add(1).expect(..) then store.
increment_ref_count(rc) ==
    IF rc = UsizeMax
    THEN [panic |-> TRUE, rc |-> rc]
    ELSE [panic |-> FALSE, rc |-> rc + 1]

\* WrenHeader::claim, called by Handle::get_value (value.rs:50). No function of
\* that name is defined under src/; per the specification it increments the
\* count and fails fast on overflow, which is what increment_ref_count does.
WrenHeader_claim(rc) == increment_ref_count(rc)

\* WrenHeader::release (wren2.rs): reads the count, computes count - 1 into a
\* local, and does nothing with it: nothing is stored, `if ref_count == 0 {}`
\* is empty.  `did` lists the teardown steps performed.
WrenHeader_release(rc) ==
    [stored |-> rc, local |-> rc - 1, did |-> << >>]

\* RawWren::decrement_count (wren.rs): n.unchecked_sub(1), stored.  Only ever
\* reached with n >= 1 (the single release of the Wren wrapper).
RawWren_decrement_count(rc) == rc - 1

\* RawWren::release (wren.rs): decrement, then wrenFreeVM when the stored count
\* is zero.  The Box<WrenInner> behind the user-data pointer is never freed.
RawWren_release(rc) ==
    LET n == RawWren_decrement_count(rc)
    IN [stored |-> n, local |-> n,
        did |-> IF n = 0 THEN << "vm" >> ELSE << >>]

\* Drop for Wren (wren2.rs): drops loader, writer and user data in place,
\* whatever the count; reads the count; `if ref_count - 1 == 0 {}` is empty.
Wren2_drop(rc) ==
    [stored |-> rc, local |-> rc - 1, did |-> << "payload" >>]

\* #[derive(Clone)] on RawWren, used by make_call_handle (wren.rs); the
\* increment_count call next to it is commented out.
RawWren_clone(rc) == rc

----------------------------------------------------------------------------
(* Handle objects.                                                         *)

NoHandle == [kind |-> "none", st |-> "none", log |-> << >>]

HandleIds == 1..MaxHandles

LiveHandles == {h \in HandleIds : handles[h].st = "live"}
DroppedHandles == {h \in HandleIds : handles[h].st = "dropped"}
FreeIds == {h \in HandleIds : handles[h].st = "none"}
NextId == CHOOSE h \in FreeIds : \A k \in FreeIds : h <= k

\* The number of holders of the VM: the wrapper and every live handle.
Holders == (IF wren_alive THEN 1 ELSE 0) + Cardinality(LiveHandles)

Count(seq, x) == Cardinality({i \in 1..Len(seq) : seq[i] = x})

\* The effect of dropping a handle object, as the sequence of calls it makes.
\*   Handle (value.rs): release_handle, then WrenHeader::release.
\*   CallHandle (wren.rs): a tuple struct of RawWren and RawHandle with no Drop
\*     impl anywhere: dropping it calls nothing.
\*   CallHandle (wren2.rs): Drop is todo!().
DropCalls(d, kind) ==
    IF kind = "value" THEN << "native", "header" >>
    ELSE << >>

\* Whether the drop itself panics (Drop for CallHandle in wren2.rs is todo!()).
DropPanics(d, kind) == d = "wren2" /\ kind = "call"

Op(name, before, r) ==
    [op |-> name, before |-> before, local |-> r.local, did |-> r.did]

NoRelease(rc) == [stored |-> rc, local |-> rc, did |-> << >>]

----------------------------------------------------------------------------
(* Lifetime operations.                                                    *)

\* Wren::make_call_handle.
\*   wren : wrenMakeCallHandle, then CallHandle(self.raw.clone(), ..).
\*   wren2: WrenPtr::make_call_handle, dbg!, todo!(): panics, returns nothing.
MakeCallHandle ==
    /\ status = "running"
    /\ wren_alive
    /\ FreeIds # {}
    /\ IF draft = "wren"
       THEN /\ handles' = [handles EXCEPT ![NextId] =
                              [kind |-> "call", st |-> "live", log |-> << >>]]
            /\ ref_count' = RawWren_clone(ref_count)
            /\ status' = status
       ELSE /\ status' = "panic_todo"
            /\ UNCHANGED <<handles, ref_count>>
    /\ last_op' = Op("make_call_handle", ref_count, NoRelease(ref_count))
    /\ UNCHANGED <<draft, wren_alive, payload_drops, vm_frees, deallocs, uaf>>
    /\ UNCHANGED slotVars
    /\ UNCHANGED errVars
    /\ UNCHANGED allocVars

\* Wren::get_variable::<Handle>.
\*   wren : todo!().
\*   wren2: ensure_slots(1), wrenGetVariable into slot 0, Handle::get_value:
\*          ensure_slots, get_slot_handle, WrenHeader::claim, Handle(..).
GetHandle ==
    /\ status = "running"
    /\ wren_alive
    /\ FreeIds # {}
    /\ IF draft = "wren"
       THEN /\ status' = "panic_todo"
            /\ UNCHANGED <<handles, ref_count>>
       ELSE LET c == WrenHeader_claim(ref_count)
            IN /\ ref_count' = c.rc
               /\ status' = IF c.panic THEN "panic_overflow" ELSE status
               /\ handles' = IF c.panic THEN handles
                             ELSE [handles EXCEPT ![NextId] =
                                     [kind |-> "value", st |-> "live", log |-> << >>]]
    /\ last_op' = Op("get_handle", ref_count, NoRelease(ref_count))
    /\ UNCHANGED <<draft, wren_alive, payload_drops, vm_frees, deallocs, uaf>>
    /\ UNCHANGED slotVars
    /\ UNCHANGED errVars
    /\ UNCHANGED allocVars

\* Dropping a CallHandle or a Handle (also while a panic unwinds).
DropHandle(h) ==
    /\ handles[h].st = "live"
    /\ LET calls == DropCalls(draft, handles[h].kind)
           r == IF "header" \in {calls[i] : i \in 1..Len(calls)}
                THEN WrenHeader_release(ref_count)
                ELSE NoRelease(ref_count)
       IN /\ handles' = [handles EXCEPT ![h] =
                           [kind |-> handles[h].kind, st |-> "dropped", log |-> calls]]
          /\ ref_count' = r.stored
          /\ uaf' = (uaf \/ (Count(calls, "native") > 0 /\ vm_frees > 0))
          /\ last_op' = Op("drop_handle", ref_count, r)
    /\ status' = IF DropPanics(draft, handles[h].kind) /\ status = "running"
                 THEN "panic_todo" ELSE status
    /\ UNCHANGED <<draft, wren_alive, payload_drops, vm_frees, deallocs>>
    /\ UNCHANGED slotVars
    /\ UNCHANGED errVars
    /\ UNCHANGED allocVars

\* Dropping the Wren wrapper.
\*   wren : RawWren::release.
\*   wren2: Drop for Wren.
DropWren ==
    /\ wren_alive
    /\ LET r == IF draft = "wren" THEN RawWren_release(ref_count)
                ELSE Wren2_drop(ref_count)
       IN /\ ref_count' = r.stored
          /\ vm_frees' = vm_frees + Count(r.did, "vm")
          /\ payload_drops' = payload_drops + Count(r.did, "payload")
          /\ deallocs' = deallocs + Count(r.did, "alloc")
          /\ last_op' = Op("drop_wren", ref_count, r)
    /\ wren_alive' = FALSE
    /\ UNCHANGED <<draft, status, handles, uaf>>
    /\ UNCHANGED slotVars
    /\ UNCHANGED errVars
    /\ UNCHANGED allocVars

\* What one write/error callback does to the payload.
\*   builder.rs : RawWren::from_ptr, which has no Drop: nothing.
\*   builder2.rs: `let _wren = Wren::from_ptr(vm)`, dropped when the callback
\*                returns, so Drop for Wren runs once per callback.
CallbackDrops(d, ncb) == IF d = "wren2" THEN ncb ELSE 0

\* Wren::interpret with ncb write/error callbacks issued by the VM.
Interpret(ncb) ==
    /\ status = "running"
    /\ wren_alive
    /\ payload_drops + CallbackDrops(draft, ncb) <= MaxPayloadDrops
    /\ payload_drops' = payload_drops + CallbackDrops(draft, ncb)
    /\ last_op' = [op |-> "interpret", before |-> ref_count, local |-> ref_count,
                   did |-> [i \in 1..CallbackDrops(draft, ncb) |-> "payload"]]
    /\ UNCHANGED <<draft, status, ref_count, wren_alive, handles, vm_frees,
                   deallocs, uaf>>
    /\ UNCHANGED slotVars
    /\ UNCHANGED errVars
    /\ UNCHANGED allocVars

----------------------------------------------------------------------------
(* The slot array and the marshalling layer (raw.rs, value.rs).            *)

\* The VM the host is talking to, and another instance built the same way.
CurVM == 1
OtherVM == 2
VMs == {CurVM, OtherVM}

Null == [t |-> "Null", v |-> 0]
Bool(b) == [t |-> "Bool", v |-> b]
Num(n) == [t |-> "Num", v |-> n]
\* A value Handle, identified by the VM it was taken from (Handle.0).
HandleOf(vm) == [t |-> "Handle", v |-> vm]

\* The scalar host values the model passes.
Scalars == {Null, Bool(1), Num(1)}
\* What newly exposed slot memory can hold before it is initialised.
SlotValues == {Null, Num(1)}

NativeCall(f, slot) == [f |-> f, slot |-> slot]

\* wrenEnsureSlots were it to set the slot count to n (as a resize does).
wrenEnsureSlots_resize(s, n, g) ==
    [i \in 1..n |-> IF i <= Len(s) THEN s[i] ELSE g]

\* wrenEnsureSlots: grows the API stack to n slots when it is shorter, never
\* shrinks it; the newly exposed slots hold whatever was there (g).
wrenEnsureSlots(s, n, g) ==
    IF Len(s) >= n THEN s ELSE s \o [i \in 1..(n - Len(s)) |-> g]

\* WrenPtr::ensure_slots without the loop that nulls the new slots.
WrenPtr_ensure_slots_uninit(s, total, g) ==
    [slots |-> wrenEnsureSlots(s, total, g), native |-> << >>]

\* WrenPtr::ensure_slots: old count, wrenEnsureSlots, new count, then
\* set_slot_null on every slot in old..new.
WrenPtr_ensure_slots(s, total, g) ==
    LET old == Len(s)
        grown == wrenEnsureSlots(s, total, g)
        new == Len(grown)
    IN [slots |-> [i \in 1..new |-> IF i > old THEN Null ELSE grown[i]],
        native |-> [i \in 1..(new - old) |-> NativeCall("set_slot_null", old + i - 1)]]

Setter(t) ==
    CASE t = "Null" -> "set_slot_null"
      [] t = "Bool" -> "set_slot_bool"
      [] t = "Num" -> "set_slot_double"
      [] OTHER -> "set_slot_bytes"

\* IntoWren for Handle::put_value without its assert_eq!.
Handle_put_value_unchecked(e, wren, s, slot) ==
    [slots |-> s, outcome |-> "panic_todo",
     native |-> << NativeCall("set_slot_handle", slot) >>]

\* IntoWren for Handle::put_value: assert_eq!(self.0, *wren), then
\* set_slot_handle, which is todo!() (raw.rs).  No ensure_slots.
Handle_put_value(e, wren, s, slot) ==
    IF e.v # wren
    THEN [slots |-> s, outcome |-> "panic_assert", native |-> << >>]
    ELSE [slots |-> s, outcome |-> "panic_todo",
          native |-> << NativeCall("set_slot_handle", slot) >>]

\* IntoWren for (), bool, f64: ensure_slots(slot + 1), then the native setter.
Scalar_put_value(e, s, slot, g) ==
    LET es == WrenPtr_ensure_slots(s, slot + 1, g)
    IN [slots |-> [es.slots EXCEPT ![slot + 1] = e], outcome |-> "ok",
        native |-> Append(es.native, NativeCall(Setter(e.t), slot))]

put_value(e, wren, s, slot, g) ==
    IF e.t = "Handle" THEN Handle_put_value(e, wren, s, slot)
    ELSE Scalar_put_value(e, s, slot, g)

\* The slot WrenArguments::prepare gives the i-th element, were the tuple
\* fields' own (zero-based) numbers used as slots.
ArgSlot_zero_based(i) == i - 1

\* The slot WrenArguments::prepare gives the i-th element (i from 1):
\* self.0 goes to 1, self.1 to 2, ... self.7 to 8.
ArgSlot(i) == i

\* WrenArguments::prepare: put_value of each element in turn; a panic ends it.
RECURSIVE PrepareFrom(_, _, _, _, _)
PrepareFrom(args, i, wren, acc, g) ==
    IF i > Len(args) \/ acc.outcome # "ok" THEN acc
    ELSE LET r == put_value(args[i], wren, acc.slots, ArgSlot(i), g)
         IN PrepareFrom(args, i + 1, wren,
                [slots |-> r.slots, outcome |-> r.outcome,
                 native |-> acc.native \o r.native,
                 puts |-> Append(acc.puts, [elem |-> args[i], slot |-> ArgSlot(i)])],
                g)

prepare(args, wren, s, g) ==
    PrepareFrom(args, 1, wren,
                [slots |-> s, outcome |-> "ok", native |-> << >>, puts |-> << >>], g)

\* WrenArguments for (): prepare of the empty tuple returns Ok(()) and makes
\* no call on the VM.
Unit_prepare(s) ==
    [slots |-> s, outcome |-> "ok", native |-> << >>, puts |-> << >>]

\* Wren::make_call_handle (wren2.rs): todo!() after the native handle is made.
Wren2_make_call_handle == [outcome |-> "panic_todo"]

\* Wren::call (wren2.rs): todo!().  It takes (handle, args): no receiver.
\* The CallHandle is a by-value parameter: it is moved into the call, the
\* caller keeps nothing, and it is dropped inside the call.
Wren2_call(args, s) ==
    [slots |-> s, outcome |-> "panic_todo", native |-> << >>, puts |-> << >>,
     invoked |-> 0, handle |-> "moved"]

\* main.rs: fly_to = make_call_handle(..); class = get_variable::<Handle>(..);
\* call::<()>(fly_to, (class,)).  A panic in a step ends the sequence there.
MainCallResult(args, s) ==
    LET h == Wren2_make_call_handle
    IN IF h.outcome # "ok"
       THEN [slots |-> s, outcome |-> h.outcome, native |-> << >>, puts |-> << >>,
             invoked |-> 0, handle |-> "none"]
       ELSE Wren2_call(args, s)

\* The record of a marshalling operation: its arguments, the slot of the first
\* one, the slot count and slot 0 before it, the put_value calls and native
\* slot calls it made in order, how it ended, and how often it invoked the VM.
Slot0(s) == IF Len(s) = 0 THEN [t |-> "None", v |-> 0] ELSE s[1]

CallOp(name, args, base, before, r, inv) ==
    [op |-> name, args |-> args, base |-> base,
     before_len |-> Len(before), before0 |-> Slot0(before),
     puts |-> r.puts, native |-> r.native, outcome |-> r.outcome, invoked |-> inv]

Elems == Scalars \cup {HandleOf(vm) : vm \in handle_vms}

ArgTuples == UNION {[1..n -> Elems] : n \in 1..(IF MaxArgs < MaxArity THEN MaxArgs ELSE MaxArity)}

PanicOf(outcome) == IF outcome = "ok" THEN "running" ELSE outcome

\* Handle::get_value on one of the VMs (through get_variable::<Handle>):
\* ensure_slots(slot + 1), get_slot_handle, WrenHeader::claim.  Only the
\* current VM's slot array and header are part of the state.
TakeHandle(vm, g) ==
    /\ status = "running"
    /\ wren_alive
    /\ vm \notin handle_vms
    /\ LET c == WrenHeader_claim(ref_count)
           es == WrenPtr_ensure_slots(slots, 1, g)
       IN IF vm = CurVM
          THEN /\ slots' = es.slots
               /\ ref_count' = c.rc
               /\ status' = IF c.panic THEN "panic_overflow" ELSE status
               /\ handle_vms' = IF c.panic THEN handle_vms ELSE handle_vms \cup {vm}
               /\ call_op' = CallOp("get_handle", << >>, 0, slots,
                                    [puts |-> << >>, native |-> es.native,
                                     outcome |-> IF c.panic THEN "panic_overflow"
                                                 ELSE "ok"], 0)
          ELSE /\ handle_vms' = handle_vms \cup {vm}
               /\ call_op' = CallOp("get_handle", << >>, 0, slots,
                                    [puts |-> << >>, native |-> << >>,
                                     outcome |-> "ok"], 0)
               /\ UNCHANGED <<slots, ref_count, status>>
    /\ UNCHANGED <<draft, wren_alive, handles, payload_drops, vm_frees, deallocs,
                   uaf, last_op>>
    /\ UNCHANGED errVars
    /\ UNCHANGED allocVars

\* One put_value of a host value into a slot of the current VM.
PutValue(e, slot, g) ==
    /\ status = "running"
    /\ wren_alive
    /\ LET r == put_value(e, CurVM, slots, slot, g)
       IN /\ slots' = r.slots
          /\ status' = PanicOf(r.outcome)
          /\ call_op' = CallOp("put_value", << e >>, slot, slots,
                               [puts |-> << [elem |-> e, slot |-> slot] >>,
                                native |-> r.native, outcome |-> r.outcome], 0)
    /\ UNCHANGED <<draft, ref_count, wren_alive, handles, payload_drops, vm_frees,
                   deallocs, uaf, last_op, handle_vms>>
    /\ UNCHANGED errVars
    /\ UNCHANGED allocVars

\* WrenArguments::prepare of an argument tuple on the current VM.
Prepare(args, g) ==
    /\ status = "running"
    /\ wren_alive
    /\ LET r == prepare(args, CurVM, slots, g)
       IN /\ slots' = r.slots
          /\ status' = PanicOf(r.outcome)
          /\ call_op' = CallOp("prepare", args, ArgSlot(1), slots, r, 0)
    /\ UNCHANGED <<draft, ref_count, wren_alive, handles, payload_drops, vm_frees,
                   deallocs, uaf, last_op, handle_vms>>
    /\ UNCHANGED errVars
    /\ UNCHANGED allocVars

\* WrenArguments::prepare of the empty tuple on the current VM.
PrepareUnit ==
    /\ status = "running"
    /\ wren_alive
    /\ LET r == Unit_prepare(slots)
       IN /\ slots' = r.slots
          /\ status' = PanicOf(r.outcome)
          /\ call_op' = CallOp("prepare", << >>, ArgSlot(1), slots, r, 0)
    /\ UNCHANGED <<draft, ref_count, wren_alive, handles, payload_drops, vm_frees,
                   deallocs, uaf, last_op, handle_vms>>
    /\ UNCHANGED errVars
    /\ UNCHANGED allocVars

\* The call sequence of main.rs with an argument tuple.  `handle` is what the
\* caller holds of the CallHandle afterwards: "none" (none was made), "moved"
\* (given away to call) or "live".
MainCall(args) ==
    /\ status = "running"
    /\ wren_alive
    /\ LET r == MainCallResult(args, slots)
       IN /\ slots' = r.slots
          /\ status' = PanicOf(r.outcome)
          /\ call_op' = [op |-> "call", args |-> args, base |-> 0,
                          before_len |-> Len(slots), before0 |-> Slot0(slots),
                          puts |-> r.puts, native |-> r.native,
                          outcome |-> r.outcome, invoked |-> r.invoked,
                          handle |-> r.handle]
    /\ UNCHANGED <<draft, ref_count, wren_alive, handles, payload_drops, vm_frees,
                   deallocs, uaf, last_op, handle_vms>>
    /\ UNCHANGED errVars
    /\ UNCHANGED allocVars

----------------------------------------------------------------------------
(* Inbound conversions (value.rs) and text decoding.                       *)

\* A String slot value / a host byte slice or str: its bytes.
Str(b) == [t |-> "String", v |-> b]
\* The f64 NaN: the number code 0 stands for it, every other code for an
\* ordinary number.  wrenSetSlotDouble / wrenGetSlotDouble pass it unchanged.
NaN == [t |-> "Num", v |-> 0]

\* `==` of the host types: PartialEq of f64 (NaN is not equal to itself), and
\* structural equality for (), bool, byte slices and text.
HostEq(a, b) == a = b /\ a # NaN

\* A slot holding an object no conversion covers (a class, an instance).
Unknown == [t |-> "Unknown", v |-> 0]

\* The byte strings the model passes: "e-acute" (two bytes), its lead byte
\* alone, and an "a" followed by a byte no UTF-8 text contains.
ByteStrings == {<< 195, 169 >>, << 195 >>, << 97, 255 >>}

\* U+FFFD REPLACEMENT CHARACTER in UTF-8.
Replacement == << 239, 191, 189 >>

At(b, i) == IF i <= Len(b) THEN b[i] ELSE 256
Cont(x) == x \in 128..191

\* The length of the UTF-8 sequence a lead byte opens, 0 when it opens none.
Width(lead) ==
    CASE lead < 128 -> 1
      [] lead \in 194..223 -> 2
      [] lead \in 224..239 -> 3
      [] lead \in 240..244 -> 4
      [] OTHER -> 0

\* Whether x may follow the lead byte (the ranges that exclude overlong
\* encodings, surrogates and code points above U+10FFFF).
SecondOk(lead, x) ==
    CASE lead = 224 -> x \in 160..191
      [] lead = 237 -> x \in 128..159
      [] lead = 240 -> x \in 144..191
      [] lead = 244 -> x \in 128..143
      [] OTHER -> Cont(x)

\* How many bytes from position i on form a prefix of a well-formed sequence
\* (at least 1: an ill-formed lead byte stands alone).
Matched(b, i) ==
    LET w == Width(b[i])
    IN IF w <= 1 THEN 1
       ELSE IF ~SecondOk(b[i], At(b, i + 1)) THEN 1
       ELSE IF w = 2 THEN 2
       ELSE IF ~Cont(At(b, i + 2)) THEN 2
       ELSE IF w = 3 THEN 3
       ELSE IF ~Cont(At(b, i + 3)) THEN 3
       ELSE 4

WellFormedAt(b, i) == Width(b[i]) > 0 /\ Matched(b, i) = Width(b[i])

\* std::str::from_utf8(bytes).is_ok()
RECURSIVE ValidFrom(_, _)
ValidFrom(b, i) ==
    IF i > Len(b) THEN TRUE
    ELSE WellFormedAt(b, i) /\ ValidFrom(b, i + Matched(b, i))

from_utf8_ok(b) == ValidFrom(b, 1)

\* String::from_utf8_lossy(bytes): well-formed sequences are copied, every
\* maximal ill-formed run is replaced by U+FFFD.
RECURSIVE LossyFrom(_, _)
LossyFrom(b, i) ==
    IF i > Len(b) THEN << >>
    ELSE LET m == Matched(b, i)
         IN (IF WellFormedAt(b, i) THEN SubSeq(b, i, i + m - 1) ELSE Replacement)
                \o LossyFrom(b, i + m)

\* String::from_utf8_lossy were it to replace every byte outside ASCII by '?'.
from_utf8_lossy_ascii(b) == [i \in 1..Len(b) |-> IF b[i] < 128 THEN b[i] ELSE 63]

from_utf8_lossy(b) == LossyFrom(b, 1)

\* A conversion that returned: Ok(value).
Ok(x) == [outcome |-> "ok", value |-> x]
\* A conversion that did not return: todo!() or unwrap() on an Err.
Panic(kind) == [outcome |-> kind, value |-> Null]

\* FromWren for Value: Ok(Null) for a slot at or beyond the slot count, the
\* slot's value for Null, Bool, Num and String, todo!() for every other type.
Value_get_value(s, slot) ==
    IF slot >= Len(s) THEN Ok(Null)
    ELSE IF s[slot + 1].t \in {"Null", "Bool", "Num", "String"} THEN Ok(s[slot + 1])
    ELSE Panic("panic_todo")

\* The typed accessor were every slot that is not Null read as a number.
Accessor_as_double(t) == IF t = "Null" THEN "none" ELSE "get_slot_double"

\* The typed accessor the match arm for slot type t calls (value.rs and
\* RawWren::get_slot alike): none for Null and for the todo!() arms.
Accessor(t) ==
    CASE t = "Bool" -> "get_slot_bool"
      [] t = "Num" -> "get_slot_double"
      [] t = "String" -> "get_slot_string"
      [] OTHER -> "none"

\* One native read: the function, the slot, and the type the slot has then
\* (for get_slot_type, the type it returns).
NativeRead(f, slot, ty) == [f |-> f, slot |-> slot, ty |-> ty]

\* The native reads of Value::get_value and of RawWren::get_slot, in order:
\* get_slot_count; for a slot below the count get_slot_type; then the typed
\* accessor of the arm taken.  (In debug builds the accessors of raw.rs
\* debug_assert the type once more.)
Value_reads(s, slot) ==
    IF slot >= Len(s) THEN << NativeRead("get_slot_count", 0, "none") >>
    ELSE LET t == s[slot + 1].t
         IN << NativeRead("get_slot_count", 0, "none"),
               NativeRead("get_slot_type", slot, t) >>
            \o (IF Accessor(t) = "none" THEN << >>
                ELSE << NativeRead(Accessor(t), slot, t) >>)

\* `let Value::X(..) = Value::get_value(wren, slot)? else { todo!() }`, the
\* body of FromWren for (), bool, f64 and &[u8].
Narrow(tag, s, slot) ==
    LET r == Value_get_value(s, slot)
    IN IF r.outcome # "ok" THEN r
       ELSE IF r.value.t = tag THEN r
       ELSE Panic("panic_todo")

Unit_get_value(s, slot) == Narrow("Null", s, slot)
bool_get_value(s, slot) == Narrow("Bool", s, slot)
f64_get_value(s, slot) == Narrow("Num", s, slot)
bytes_get_value(s, slot) == Narrow("String", s, slot)

\* FromWren for &str: the bytes, then from_utf8(bytes).unwrap().
str_get_value(s, slot) ==
    LET r == bytes_get_value(s, slot)
    IN IF r.outcome # "ok" THEN r
       ELSE IF from_utf8_ok(r.value.v) THEN r
       ELSE Panic("panic_unwrap")

\* FromWren for Cow<str>: the bytes, then String::from_utf8_lossy(bytes).
Cow_get_value(s, slot) ==
    LET r == bytes_get_value(s, slot)
    IN IF r.outcome # "ok" THEN r
       ELSE Ok(Str(from_utf8_lossy(r.value.v)))

\* FromWren for String: Cow::get_value, then to_string().
String_get_value(s, slot) == Cow_get_value(s, slot)

\* The types T of get_value::<T> and the slot tag each expects.
Types == {"unit", "bool", "f64", "bytes", "str", "Cow", "String", "Value"}
TextTypes == {"str", "Cow", "String"}

Expected(T) ==
    CASE T = "unit" -> {"Null"}
      [] T = "bool" -> {"Bool"}
      [] T = "f64" -> {"Num"}
      [] T = "Value" -> {"Null", "Bool", "Num", "String"}
      [] OTHER -> {"String"}

get_value(T, s, slot) ==
    CASE T = "unit" -> Unit_get_value(s, slot)
      [] T = "bool" -> bool_get_value(s, slot)
      [] T = "f64" -> f64_get_value(s, slot)
      [] T = "bytes" -> bytes_get_value(s, slot)
      [] T = "str" -> str_get_value(s, slot)
      [] T = "Cow" -> Cow_get_value(s, slot)
      [] T = "String" -> String_get_value(s, slot)
      [] OTHER -> Value_get_value(s, slot)

\* T::from_wren, called by Wren::get_variable (wren2.rs:84).  FromWren has
\* no function of that name under src/; it is taken to be T::get_value, the
\* trait's one function.
T_from_wren(T, s, slot) == get_value(T, s, slot)

\* Wren::get_variable::<T> (wren2.rs): ensure_slots(1), wrenGetVariable puts
\* the variable's value x into slot 0, then the conversion of slot 0.
Wren2_get_variable(T, s, x, g) ==
    LET es == WrenPtr_ensure_slots(s, 1, g)
        s1 == [es.slots EXCEPT ![1] = x]
        r == T_from_wren(T, s1, 0)
    IN [slots |-> s1, outcome |-> r.outcome, value |-> r.value]

\* RawWren::ensure_slots (wren.rs): the range count..slots, wrenEnsureSlots,
\* then set_slot(slot, Value::Null) on every slot of the range.
RawWren_ensure_slots(s, n, g) ==
    LET old == Len(s)
        grown == wrenEnsureSlots(s, n, g)
    IN [slots |-> [i \in 1..Len(grown) |->
                       IF i - 1 \in old..(n - 1) THEN Null ELSE grown[i]],
        native |-> [i \in 1..(IF n > old THEN n - old ELSE 0) |->
                       NativeCall("set_slot_null", old + i - 1)]]

\* Option::None, as a value.
NoneValue == [t |-> "None", v |-> 0]

\* RawWren::get_slot (wren.rs): None for a slot at or beyond the slot count,
\* Some(value) for Null, Bool, Num and String, todo!() for every other type.
RawWren_get_slot(s, slot) ==
    IF slot >= Len(s) THEN Ok(NoneValue)
    ELSE IF s[slot + 1].t \in {"Null", "Bool", "Num", "String"} THEN Ok(s[slot + 1])
    ELSE Panic("panic_todo")

\* RawWren::set_slot (wren.rs): assert!(slot < get_slot_count()), then the
\* native setter of the value's variant.
RawWren_set_slot(s, slot, e) ==
    IF slot < Len(s)
    THEN [slots |-> [s EXCEPT ![slot + 1] = e], outcome |-> "ok"]
    ELSE [slots |-> s, outcome |-> "panic_assert"]

\* The host values with an IntoWren impl other than Handle.
HostValues == Scalars \cup {NaN} \cup {Str(b) : b \in ByteStrings}
\* What a module variable can hold.
VarValues == HostValues \cup {Unknown}

\* The tag get_slot_type reports for a slot, "None" when there is no such slot.
TagAt(s, slot) == IF slot < Len(s) THEN s[slot + 1].t ELSE "None"

\* The value of the immediately preceding successful put_value into `slot`.
JustPut(slot) ==
    IF call_op.op = "put_value" /\ call_op.outcome = "ok" /\ call_op.base = slot
    THEN call_op.args ELSE << >>

\* get_value::<T> on a slot of the current VM.
GetValue(T, slot) ==
    /\ status = "running"
    /\ wren_alive
    /\ draft = "wren2"
    /\ LET r == get_value(T, slots, slot)
       IN /\ status' = PanicOf(r.outcome)
          /\ call_op' = [op |-> "get_value", T |-> T, slot |-> slot,
                          before |-> slots, put |-> JustPut(slot),
                          reads |-> Value_reads(slots, slot),
                          outcome |-> r.outcome, value |-> r.value]
    /\ UNCHANGED <<draft, ref_count, wren_alive, handles, payload_drops, vm_frees,
                   deallocs, uaf, last_op, slots, handle_vms>>
    /\ UNCHANGED errVars
    /\ UNCHANGED allocVars

\* Wren::get_slot / RawWren::get_slot on a slot of the VM (wren.rs).
GetSlot(slot) ==
    /\ status = "running"
    /\ wren_alive
    /\ draft = "wren"
    /\ LET r == RawWren_get_slot(slots, slot)
       IN /\ status' = PanicOf(r.outcome)
          /\ call_op' = [op |-> "get_slot", slot |-> slot, before |-> slots,
                          reads |-> Value_reads(slots, slot),
                          outcome |-> r.outcome, value |-> r.value]
    /\ UNCHANGED <<draft, ref_count, wren_alive, handles, payload_drops, vm_frees,
                   deallocs, uaf, last_op, slots, handle_vms>>
    /\ UNCHANGED errVars
    /\ UNCHANGED allocVars

\* Wren::get_variable::<T> of a variable holding x.  `changed` says whether
\* the slot array after the call differs from the one before it.
GetVariable(T, x, g) ==
    /\ status = "running"
    /\ wren_alive
    /\ draft = "wren2"
    /\ LET r == Wren2_get_variable(T, slots, x, g)
       IN /\ slots' = r.slots
          /\ status' = PanicOf(r.outcome)
          /\ call_op' = [op |-> "get_variable", T |-> T,
                          changed |-> (r.slots # slots),
                          reads |-> Value_reads(r.slots, 0),
                          outcome |-> r.outcome, value |-> r.value]
    /\ UNCHANGED <<draft, ref_count, wren_alive, handles, payload_drops, vm_frees,
                   deallocs, uaf, last_op, handle_vms>>
    /\ UNCHANGED errVars
    /\ UNCHANGED allocVars

\* ensure_slots(n): WrenPtr::ensure_slots or RawWren::ensure_slots.  prev_n is
\* the n of the ensure_slots immediately before this one, -1 when there is none.
EnsureSlots(n, g) ==
    /\ status = "running"
    /\ wren_alive
    /\ LET r == IF draft = "wren" THEN RawWren_ensure_slots(slots, n, g)
                ELSE WrenPtr_ensure_slots(slots, n, g)
       IN /\ slots' = r.slots
          /\ call_op' = [op |-> "ensure_slots", n |-> n, before |-> slots,
                          garbage |-> g, native |-> r.native,
                          prev_n |-> IF call_op.op = "ensure_slots"
                                     THEN call_op.n ELSE -1]
    /\ UNCHANGED <<draft, status, ref_count, wren_alive, handles, payload_drops,
                   vm_frees, deallocs, uaf, last_op, handle_vms>>
    /\ UNCHANGED errVars
    /\ UNCHANGED allocVars

\* RawWren::set_slot of a host value.
SetSlot(slot, e) ==
    /\ status = "running"
    /\ wren_alive
    /\ draft = "wren"
    /\ LET r == RawWren_set_slot(slots, slot, e)
       IN /\ slots' = r.slots
          /\ status' = PanicOf(r.outcome)
          /\ call_op' = [op |-> "set_slot", slot |-> slot, outcome |-> r.outcome]
    /\ UNCHANGED <<draft, ref_count, wren_alive, handles, payload_drops, vm_frees,
                   deallocs, uaf, last_op, handle_vms>>
    /\ UNCHANGED errVars
    /\ UNCHANGED allocVars

----------------------------------------------------------------------------
(* The pending error of the header and the error callback (wren.rs,        *)
(* builder.rs).                                                            *)

Msgs == 1..MaxMsgs

\* The C strings the VM hands the callback: text, and bytes that are not UTF-8.
Texts == << << 195, 169 >>, << 97, 255 >>, << 195 >>, << 97 >> >>
Text(i) == Texts[((i - 1) % Len(Texts)) + 1]

\* The arguments of the m-th kind of callback: module, line, message (the
\* method name, for a stack-trace callback).  Module and message differ.
CArgs(m) == [module |-> Text(m), line |-> m, message |-> Text(m + 1)]

\* CStr::from_ptr(p).to_string_lossy().to_string()
to_string_lossy(b) == from_utf8_lossy(b)

\* WrenHeader.error is None.
NoError == [kind |-> "none", module |-> << >>, line |-> 0, message |-> << >>,
            stack_trace |-> << >>]
\* Some(Error::Compile(CompileError {module, line, message})).
CompileError(module, line, message) ==
    [kind |-> "compile", module |-> module, line |-> line, message |-> message,
     stack_trace |-> << >>]
\* Some(Error::Runtime(RuntimeError {message, stack_trace})).
RuntimeError(message, st) ==
    [kind |-> "runtime", module |-> << >>, line |-> 0, message |-> message,
     stack_trace |-> st]
\* StackTrace {module, line, method}.
StackTrace(module, line, method) ==
    [module |-> module, line |-> line, method |-> method]

\* RawWren::set_compile_error were it to keep an error that is already pending.
RawWren_set_compile_error_keep(err, module, line, message) ==
    IF err.kind = "none" THEN CompileError(module, line, message) ELSE err

\* RawWren::set_compile_error: *error.borrow_mut() = Some(Error::Compile(..)).
RawWren_set_compile_error(err, module, line, message) ==
    CompileError(module, line, message)

\* RawWren::set_runtime_error: *error.borrow_mut() = Some(Error::Runtime(..))
\* with stack_trace: Vec::new().
RawWren_set_runtime_error(err, message) == RuntimeError(message, << >>)

\* RawWren::add_stacktrace were it to put the new frame first.
RawWren_add_stacktrace_front(err, module, line, method) ==
    IF err.kind = "runtime"
    THEN [error |-> RuntimeError(err.message,
                       << StackTrace(module, line, method) >> \o err.stack_trace),
          outcome |-> "ok"]
    ELSE [error |-> err, outcome |-> "panic_explicit"]

\* RawWren::add_stacktrace were it to start a runtime error of its own when
\* none is pending.
RawWren_add_stacktrace_lenient(err, module, line, method) ==
    [error |-> RuntimeError(IF err.kind = "runtime" THEN err.message ELSE << >>,
                  Append(err.stack_trace, StackTrace(module, line, method))),
     outcome |-> "ok"]

\* RawWren::add_stacktrace: push a frame on the pending runtime error; panic!
\* when the pending error is not a runtime error.
RawWren_add_stacktrace(err, module, line, method) ==
    IF err.kind = "runtime"
    THEN [error |-> RuntimeError(err.message,
                       Append(err.stack_trace, StackTrace(module, line, method))),
          outcome |-> "ok"]
    ELSE [error |-> err, outcome |-> "panic_explicit"]

\* RawWren::take_error: Option::take.
RawWren_take_error(err) == [taken |-> err, error |-> NoError]

ErrorTypes == {"compile", "runtime", "stack_trace"}

\* c_functions::error_fn (builder.rs): dispatch on the error type; the C
\* strings are converted with to_string_lossy.  Its assert!s on null
\* module/message pointers hold for what the VM passes.
error_fn(err, ty, module, line, message) ==
    CASE ty = "compile" ->
            [error |-> RawWren_set_compile_error(err, to_string_lossy(module), line,
                                                 to_string_lossy(message)),
             outcome |-> "ok"]
      [] ty = "runtime" ->
            [error |-> RawWren_set_runtime_error(err, to_string_lossy(message)),
             outcome |-> "ok"]
      [] OTHER ->
            RawWren_add_stacktrace(err, to_string_lossy(module), line,
                                   to_string_lossy(message))

\* No Compile or Runtime callback yet.
NoHead == [ty |-> "none", arg |-> 0]

NoErrOp == [op |-> "none", opened |-> NoError, head |-> NoHead, passed |-> << >>]

\* The VM calls the error callback with the arguments CArgs(m).  `opened` is
\* the error as the last Compile or Runtime callback made it, `head` that
\* callback, `passed` the arguments of the stack-trace callbacks since then,
\* in order.
ErrorFn(ty, m) ==
    /\ status = "running"
    /\ wren_alive
    /\ draft = "wren"
    /\ ty = "stack_trace" => Len(error.stack_trace) < MaxFrames
    /\ LET a == CArgs(m)
           r == error_fn(error, ty, a.module, a.line, a.message)
       IN /\ error' = r.error
          /\ status' = PanicOf(r.outcome)
          /\ err_op' = [op |-> "error_fn", ty |-> ty, arg |-> m, before |-> error,
                         opened |-> IF ty = "stack_trace" THEN err_op.opened
                                    ELSE r.error,
                         head |-> IF ty = "stack_trace" THEN err_op.head
                                  ELSE [ty |-> ty, arg |-> m],
                         passed |-> IF ty = "stack_trace" THEN Append(err_op.passed, a)
                                    ELSE << >>]
    /\ UNCHANGED <<draft, ref_count, wren_alive, handles, payload_drops, vm_frees,
                   deallocs, uaf, last_op, writer>>
    /\ UNCHANGED slotVars
    /\ UNCHANGED allocVars

\* The host consumes the pending error (RawWren::take_error).
TakeError ==
    /\ status = "running"
    /\ wren_alive
    /\ draft = "wren"
    /\ LET r == RawWren_take_error(error)
       IN /\ error' = r.error
          /\ err_op' = [op |-> "take_error", taken |-> r.taken, opened |-> NoError,
                         head |-> NoHead, passed |-> err_op.passed]
    /\ UNCHANGED <<draft, status, ref_count, wren_alive, handles, payload_drops,
                   vm_frees, deallocs, uaf, last_op, writer>>
    /\ UNCHANGED slotVars
    /\ UNCHANGED allocVars

----------------------------------------------------------------------------
(* interpret and the callbacks the VM issues while it runs (wren.rs with   *)
(* builder.rs, wren2.rs with builder2.rs).  The callbacks between two      *)
(* returns of interpret are the callbacks of the second call.              *)

\* What Builder holds as its writer: Stdout after Builder::new, the value
\* given to Builder::with_output otherwise.  WrenBuilder (builder.rs) has no
\* writer: its VM prints to the process's standard output.
Writers == {"stdout", "custom"}

\* Builder::with_output: the writer replaces the one the builder had.
Builder_with_output(w, t) == t

\* c_functions::error_fn (builder2.rs): materialises a Wren from the raw
\* pointer, prints the error, and drops the Wren; nothing is stored.
ErrorFn2(ty, m) ==
    /\ status = "running"
    /\ wren_alive
    /\ draft = "wren2"
    /\ payload_drops < MaxPayloadDrops
    /\ ty = "stack_trace" => Len(err_op.passed) < MaxFrames
    /\ payload_drops' = payload_drops + 1
    /\ err_op' = [op |-> "error_fn", ty |-> ty, arg |-> m, before |-> error,
                  opened |-> NoError,
                  head |-> IF ty = "stack_trace" THEN err_op.head
                           ELSE [ty |-> ty, arg |-> m],
                  passed |-> IF ty = "stack_trace"
                             THEN Append(err_op.passed, CArgs(m)) ELSE << >>]
    /\ UNCHANGED <<draft, status, ref_count, wren_alive, handles, vm_frees,
                   deallocs, uaf, last_op, error, writer>>
    /\ UNCHANGED slotVars
    /\ UNCHANGED allocVars

\* c_functions::write_fn (builder.rs): stdout().write_all(text.to_bytes()).
write_fn(text, w) == [stdout |-> text, writer |-> text]

\* c_functions::write_fn (builder2.rs): print!("{}", text.to_string_lossy());
\* WrenData.writer is not used.  What reaches the writer is what reaches the
\* standard output when the writer is Stdout, and nothing otherwise.
write_fn2(text, w) ==
    [stdout |-> to_string_lossy(text),
     writer |-> IF w = "stdout" THEN to_string_lossy(text) ELSE << >>]

\* The VM calls the write callback with the C string Text(m).
WriteFn(m) ==
    /\ status = "running"
    /\ wren_alive
    /\ draft = "wren2" => payload_drops < MaxPayloadDrops
    /\ payload_drops' = payload_drops + CallbackDrops(draft, 1)
    /\ LET r == IF draft = "wren" THEN write_fn(Text(m), writer)
                ELSE write_fn2(Text(m), writer)
       IN err_op' = [op |-> "write_fn", text |-> Text(m), stdout |-> r.stdout,
                     sink |-> r.writer, drops |-> CallbackDrops(draft, 1),
                     opened |-> err_op.opened, head |-> err_op.head,
                     passed |-> err_op.passed]
    /\ UNCHANGED <<draft, status, ref_count, wren_alive, handles, vm_frees,
                   deallocs, uaf, last_op, error, writer>>
    /\ UNCHANGED slotVars
    /\ UNCHANGED allocVars

\* The host types foreign classes are made for, and Layout::new::<T>().
HostTypes == {"Vec3", "Unit"}
Layout_new(T) == IF T = "Vec3" THEN [size |-> 12, align |-> 4]
                 ELSE [size |-> 0, align |-> 1]

\* ForeignClass::new_for::<T>(module, name, methods): the descriptor of a
\* foreign class (the methods play no part in binding the class).
ForeignClass_new_for(module, name, T) ==
    [module |-> module, name |-> name, type_id |-> T, layout |-> Layout_new(T),
     drop_fn |-> [fn |-> "drop_in_place", of |-> T]]

ModuleNames == {"main", "geometry"}
ClassNames == {"Vec3", "Unit"}

\* The foreign classes the host has descriptors for.  The code has no
\* operation that hands a descriptor to the builder or to the VM.
ForeignClasses ==
    {ForeignClass_new_for("geometry", "Vec3", "Vec3"),
     ForeignClass_new_for("main", "Unit", "Unit")}

\* WrenForeignClassMethods {allocate: None, finalize: None}.
NoForeignMethods == [allocate |-> [fn |-> "none"], finalize |-> [fn |-> "none"]]

\* c_functions::bind_foreign_class_fn: dbg!(module, class), then the pair
\* {allocate: None, finalize: None} whatever the names are.
bind_foreign_class_fn(module, class) == NoForeignMethods

\* The VM meets a foreign class declaration and asks the host to bind it.
BindForeignClass(module, class) ==
    /\ status = "running"
    /\ wren_alive
    /\ draft = "wren"
    /\ err_op' = [op |-> "bind_foreign_class", module |-> module, class |-> class,
                  ret |-> bind_foreign_class_fn(module, class),
                  opened |-> err_op.opened, head |-> err_op.head,
                  passed |-> err_op.passed]
    /\ UNCHANGED <<draft, status, ref_count, wren_alive, handles, payload_drops,
                   vm_frees, deallocs, uaf, last_op, error, writer>>
    /\ UNCHANGED slotVars
    /\ UNCHANGED allocVars

InterpretResults == {"success", "compile", "runtime"}

OkUnit == [tag |-> "Ok"]
Err(e) == [tag |-> "Err", error |-> e]
NoReturn == [tag |-> "none"]

\* Wren::interpret (wren.rs) once wrenInterpret has returned `result`:
\* Ok(()) on success; on an error result take_error, panic!() when nothing
\* is pending, debug_assert! (debug builds) that the kind matches, Err(error).
Wren_interpret(err, result, debug) ==
    IF result = "success"
    THEN [ret |-> OkUnit, error |-> err, outcome |-> "ok"]
    ELSE LET t == RawWren_take_error(err)
         IN IF t.taken.kind = "none"
            THEN [ret |-> NoReturn, error |-> t.error, outcome |-> "panic_explicit"]
            ELSE IF debug /\ t.taken.kind # result
            THEN [ret |-> NoReturn, error |-> t.error, outcome |-> "panic_assert"]
            ELSE [ret |-> Err(t.taken), error |-> t.error, outcome |-> "ok"]

\* Wren::interpret (wren2.rs) once WrenPtr::interpret has returned: Ok(()),
\* Err(Error::Compile) or Err(Error::Runtime); error.rs's Error::Compile and
\* Error::Runtime carry no fields.
Wren2_interpret(err, result) ==
    IF result = "success"
    THEN [ret |-> OkUnit, error |-> err, outcome |-> "ok"]
    ELSE [ret |-> Err([kind |-> result]), error |-> err, outcome |-> "ok"]

\* wrenInterpret returns `result` and interpret finishes.  `delivered` is
\* what the error callbacks of this call delivered.
InterpretReturn(result, debug) ==
    /\ status = "running"
    /\ wren_alive
    /\ LET r == IF draft = "wren" THEN Wren_interpret(error, result, debug)
                ELSE Wren2_interpret(error, result)
       IN /\ error' = r.error
          /\ status' = PanicOf(r.outcome)
          /\ err_op' = [op |-> "interpret", result |-> result, ret |-> r.ret,
                         before |-> error,
                         delivered |-> [head |-> err_op.head, passed |-> err_op.passed],
                         opened |-> NoError, head |-> NoHead, passed |-> << >>]
    /\ UNCHANGED <<draft, ref_count, wren_alive, handles, payload_drops, vm_frees,
                   deallocs, uaf, last_op, writer>>
    /\ UNCHANGED slotVars
    /\ UNCHANGED allocVars

----------------------------------------------------------------------------
(* WrenAllocation (builder.rs): a block for the VM with the Layout it was  *)
(* asked for stored in front of the data.  Addresses are byte addresses.   *)

\* Layout::new::<T>() for u8, u64 and u128, and an over-aligned layout.
Layouts ==
    {[size |-> 1, align |-> 1], [size |-> 8, align |-> 8],
     [size |-> 16, align |-> 16], [size |-> 32, align |-> 32]}

\* Layout::new::<Layout>(): a usize and an alignment.
LayoutOfLayout == [size |-> 16, align |-> 8]
\* std::mem::size_of::<Layout>()
size_of_Layout == LayoutOfLayout.size

RoundUp(n, al) == ((n + al - 1) \div al) * al
Max(a, b) == IF a >= b THEN a ELSE b

\* Layout::extend(self, next): next placed after self at the next multiple of
\* next.align; no trailing padding.
Layout_extend(self, next) ==
    LET offset == RoundUp(self.size, next.align)
    IN [layout |-> [size |-> offset + next.size, align |-> Max(self.align, next.align)],
        offset |-> offset]

\* WrenAllocation::layout_ptr were the header kept at the data pointer itself.
layout_ptr_at_data(data) == data

\* WrenAllocation::layout_ptr: self.0 - size_of::<Layout>().
layout_ptr(data) == data - size_of_Layout

\* The bytes from..from+n-1 and the Layout stored at c.at overlap.
Overlaps(c, from, n) == c.at < from + n /\ from < c.at + size_of_Layout

\* ptr.write(val) of a Layout: what was stored in those bytes is gone.
WriteLayout(m, at, val) ==
    {c \in m : ~Overlaps(c, at, size_of_Layout)} \cup {[at |-> at, val |-> val]}

\* Bytes written over from..from+n-1.
Clobber(m, from, n) == {c \in m : ~Overlaps(c, from, n)}

\* ptr.read() of a Layout: the value stored at exactly that address, or, for
\* bytes that hold no Layout (never written, or written over), any value.
ReadLayout(m, at) ==
    IF \E c \in m : c.at = at THEN {c.val : c \in {d \in m : d.at = at}}
    ELSE Layouts

\* The blocks std::alloc::alloc can return for `full`: aligned, inside the
\* memory, and disjoint from every live block.
FreeBases(live, full) ==
    {b \in 1..MemSize :
        /\ b % full.align = 0
        /\ b + full.size - 1 <= MemSize
        /\ \A i \in 1..Len(live) :
               \/ b + full.size <= live[i].base
               \/ live[i].base + live[i].full.size <= b}

\* WrenAllocation::new(layout) when alloc returns the block at `base`: the
\* data pointer is base + offset, and the layout is written at layout_ptr.
WrenAllocation_new(m, layout, base) ==
    LET e == Layout_extend(LayoutOfLayout, layout)
        data == base + e.offset
    IN [alloc |-> [data |-> data, base |-> base, full |-> e.layout, asked |-> layout],
        mem |-> WriteLayout(m, layout_ptr(data), layout)]

\* WrenAllocation::layout: layout_ptr().read().
WrenAllocation_layout(m, a) == ReadLayout(m, layout_ptr(a.data))

NoAllocOp == [op |-> "none", idx |-> 0, got |-> LayoutOfLayout]

\* WrenAllocation::new(layout).
New(layout, base) ==
    /\ status = "running"
    /\ draft = "wren"
    /\ Len(allocs) < MaxAllocs
    /\ base \in FreeBases(allocs, Layout_extend(LayoutOfLayout, layout).layout)
    /\ LET r == WrenAllocation_new(mem, layout, base)
       IN /\ allocs' = Append(allocs, r.alloc)
          /\ mem' = r.mem
          /\ alloc_op' = [op |-> "new", idx |-> Len(allocs) + 1, got |-> layout]
    /\ UNCHANGED lifeVars
    /\ UNCHANGED slotVars
    /\ UNCHANGED errVars

\* alloc.layout() on the i-th live allocation.
GetLayout(i) ==
    /\ status = "running"
    /\ draft = "wren"
    /\ i \in 1..Len(allocs)
    /\ \E got \in WrenAllocation_layout(mem, allocs[i]) :
           alloc_op' = [op |-> "layout", idx |-> i, got |-> got]
    /\ UNCHANGED <<allocs, mem>>
    /\ UNCHANGED lifeVars
    /\ UNCHANGED slotVars
    /\ UNCHANGED errVars

\* The VM fills the data of the i-th allocation (the pointer into_raw gave
\* it): layout.size() bytes from the data pointer on.
FillData(i) ==
    /\ status = "running"
    /\ draft = "wren"
    /\ i \in 1..Len(allocs)
    /\ mem' = Clobber(mem, allocs[i].data, allocs[i].asked.size)
    /\ alloc_op' = [op |-> "fill", idx |-> i, got |-> allocs[i].asked]
    /\ UNCHANGED allocs
    /\ UNCHANGED lifeVars
    /\ UNCHANGED slotVars
    /\ UNCHANGED errVars

----------------------------------------------------------------------------
NoCallOp == [op |-> "none"]

\* Builder::build / WrenBuilder::build: ref_count 1, payload in place, a fresh
\* VM whose API stack is not set up (no slots).
InitBase ==
    /\ draft \in Drafts
    /\ status = "running"
    /\ ref_count = 1
    /\ wren_alive = TRUE
    /\ handles = [h \in HandleIds |-> NoHandle]
    /\ payload_drops = 0
    /\ vm_frees = 0
    /\ deallocs = 0
    /\ uaf = FALSE
    /\ last_op = [op |-> "build", before |-> 1, local |-> 1, did |-> << >>]
    /\ slots = << >>
    /\ handle_vms = {}
    /\ call_op = NoCallOp
    /\ error = NoError
    /\ err_op = NoErrOp
    /\ allocs = << >>
    /\ mem = {}
    /\ alloc_op = NoAllocOp

\* Builder::new / WrenBuilder::new: the writer is the standard output.
Init ==
    /\ InitBase
    /\ writer = "stdout"

Next ==
    \/ MakeCallHandle
    \/ GetHandle
    \/ \E h \in HandleIds : DropHandle(h)
    \/ DropWren
    \/ \E ncb \in 0..MaxCallbacks : Interpret(ncb)

Spec == Init /\ [][Next]_vars

\* The marshalling layer belongs to the wren2 revision.
InitCall == Init /\ draft = "wren2"

NextCall ==
    \/ \E vm \in VMs, g \in SlotValues : TakeHandle(vm, g)
    \/ \E e \in Elems, slot \in 0..MaxArgs, g \in SlotValues : PutValue(e, slot, g)
    \/ \E args \in ArgTuples, g \in SlotValues : Prepare(args, g)
    \/ PrepareUnit
    \/ \E args \in ArgTuples : MainCall(args)

SpecCall == InitCall /\ [][NextCall]_vars

\* The slot array and the conversions, in either revision.
NextValue ==
    \/ \E n \in 0..(MaxSlot + 1), g \in SlotValues : EnsureSlots(n, g)
    \/ \E slot \in 0..MaxSlot, e \in HostValues : SetSlot(slot, e)
    \/ \E e \in HostValues, slot \in 0..MaxSlot, g \in SlotValues :
           draft = "wren2" /\ PutValue(e, slot, g)
    \/ \E T \in Types, slot \in 0..MaxSlot : GetValue(T, slot)
    \/ \E slot \in 0..(MaxSlot + 1) : GetSlot(slot)
    \/ \E T \in Types, x \in VarValues, g \in SlotValues : GetVariable(T, x, g)

SpecValue == Init /\ [][NextValue]_vars

\* The pending error belongs to the wren revision: the header of wren2.rs has
\* no error field.
InitError == Init /\ draft = "wren"

NextError ==
    \/ \E ty \in ErrorTypes, m \in Msgs : ErrorFn(ty, m)
    \/ TakeError

SpecError == InitError /\ [][NextError]_vars

\* The VM is built with or without Builder::with_output (builder2.rs only)
\* and runs scripts.
InitInterpret ==
    /\ InitBase
    /\ writer \in {"stdout"}
                 \cup (IF draft = "wren2"
                       THEN {Builder_with_output("stdout", w) : w \in Writers}
                       ELSE {})

NextInterpret ==
    \/ \E ty \in ErrorTypes, m \in Msgs : ErrorFn(ty, m)
    \/ \E ty \in ErrorTypes, m \in Msgs : ErrorFn2(ty, m)
    \/ \E m \in Msgs : WriteFn(m)
    \/ \E module \in ModuleNames, class \in ClassNames : BindForeignClass(module, class)
    \/ \E result \in InterpretResults, debug \in BOOLEAN : InterpretReturn(result, debug)

SpecInterpret == InitInterpret /\ [][NextInterpret]_vars

\* The allocations reallocate_fn makes for the VM (builder.rs).
InitAlloc == Init /\ draft = "wren"

NextAlloc ==
    \/ \E layout \in Layouts, base \in 1..MemSize : New(layout, base)
    \/ \E i \in 1..MaxAllocs : GetLayout(i)
    \/ \E i \in 1..MaxAllocs : FillData(i)

SpecAlloc == InitAlloc /\ [][NextAlloc]_vars

----------------------------------------------------------------------------
(* Claims about the lifetime of the VM (checked under Spec).               *)

ReleaseOps == {"drop_wren", "drop_handle"}

\* C1: the native VM free call is performed exactly once, exactly by the
\* release that takes ref_count from 1 to 0: never while ref_count > 0, never
\* twice, and it has been performed once every holder is released.
C1_FreedExactlyOnceAtZero ==
    /\ vm_frees <= 1
    /\ (vm_frees = 1 => ref_count = 0)
    /\ (last_op.op \in ReleaseOps /\ last_op.before = 1
            => Count(last_op.did, "vm") = 1)
    /\ (Holders = 0 => vm_frees = 1)

\* C2: the stored ref_count changes only through claim and release: a claim
\* leaves it one higher, every release (the drop of the wrapper included)
\* leaves it one lower, and interpret leaves it alone.
C2_CountMovesByClaimAndRelease ==
    /\ (last_op.op = "get_handle" /\ status = "running"
            => ref_count = last_op.before + 1)
    /\ (last_op.op \in ReleaseOps => ref_count = last_op.before - 1)
    /\ (last_op.op = "interpret" => ref_count = last_op.before)

\* C3: ref_count equals the number of live holders (the wrapper, every live
\* CallHandle, every live Handle), and the VM is not freed while a handle lives.
C3_CountEqualsHolders ==
    /\ ref_count = Holders
    /\ (LiveHandles # {} => vm_frees = 0)

\* C4: the embedder payload is dropped exactly once, only by the release that
\* brings the count to zero: not while a holder is left, and not leaked once
\* the last holder is released.
C4_PayloadDroppedOnceAtZero ==
    /\ payload_drops <= 1
    /\ (payload_drops = 1 => Holders = 0)
    /\ (Holders = 0 => payload_drops = 1)

\* C5: a release that brings the count to zero drops the payload, frees the VM
\* and frees the allocation, in that order, inside that release.
C5_TeardownInOrder ==
    last_op.op \in ReleaseOps /\ last_op.local = 0
        => last_op.did = << "payload", "vm", "alloc" >>

\* C6: dropping a CallHandle or a Handle releases its native handle and then
\* its Header claim, each exactly once, and never against a freed VM.
C6_DropReleasesNativeThenClaim ==
    /\ \A h \in DroppedHandles : handles[h].log = << "native", "header" >>
    /\ ~uaf

----------------------------------------------------------------------------
(* Claims about the call protocol and marshalling (checked under SpecCall). *)

IsForeign(e) == e.t = "Handle" /\ e.v # CurVM

ForeignAt(op) == {i \in 1..Len(op.args) : IsForeign(op.args[i])}
FirstForeign(op) == CHOOSE i \in ForeignAt(op) : \A k \in ForeignAt(op) : i <= k

MarshalOps == {"put_value", "prepare", "call"}

NativeSlots(op) == {op.native[i].slot : i \in 1..Len(op.native)}

C9_CallWritesThenInvokesOnce ==
    call_op.op = "call"
        => /\ call_op.invoked = 1
           /\ call_op.outcome = "ok"
           /\ Len(call_op.puts) = Len(call_op.args) + 1
           /\ call_op.puts[1].slot = 0
           /\ \A i \in 1..Len(call_op.args) :
                  call_op.puts[i + 1] = [elem |-> call_op.args[i], slot |-> i]

C11_EmptyTupleRejected ==
    call_op.op = "prepare" /\ Len(call_op.args) = 0
        => /\ call_op.outcome # "ok"
           /\ call_op.invoked = 0

\* C12: a CallHandle outlives the call it is used for: when the call sequence
\* is over, the caller still holds the live CallHandle and can pass it to a
\* further call; the call neither consumed nor released it.
C12_CallHandleSurvivesCall ==
    call_op.op = "call" => call_op.handle = "live"

----------------------------------------------------------------------------
(* Claims about conversions and the slot array (checked under SpecValue).  *)

\* The types a host value can be put as and read back as: a str is valid
\* text by construction, a byte slice is any bytes.
TypesOf(e) ==
    CASE e.t = "Null" -> {"unit"}
      [] e.t = "Bool" -> {"bool"}
      [] e.t = "Num" -> {"f64"}
      [] OTHER -> {"bytes"} \cup (IF from_utf8_ok(e.v) THEN TextTypes ELSE {})

TypedConversions == {"unit", "bool", "f64", "bytes", "str"}

\* C14: a typed get_value::<T> on an existing slot whose tag is not the one T
\* expects returns a TypeMismatch error carrying the expected tags and the
\* found tag, and does not panic.
C14_MismatchReturnsTypeMismatch ==
    call_op.op = "get_value" /\ call_op.T \in TypedConversions
        /\ TagAt(call_op.before, call_op.slot) \notin Expected(call_op.T) \cup {"None"}
        => /\ status = "running"
           /\ call_op.outcome = "type_mismatch"
           /\ call_op.value = [expected |-> Expected(call_op.T),
                               found |-> TagAt(call_op.before, call_op.slot)]

\* C15: get_value::<()> returns success exactly when the addressed slot
\* exists and holds Null: not for another tag, and not for a slot index at
\* or beyond the slot count.
C15_UnitOnlyFromNullSlot ==
    call_op.op = "get_value" /\ call_op.T = "unit"
        => (call_op.outcome = "ok"
                <=> TagAt(call_op.before, call_op.slot) = "Null")

\* C16: decoding a String slot whose bytes are not valid text as String or
\* &str returns an Encoding error: no panic, no replacement characters; the
\* Cow conversion alone returns the text with replacement characters.
C16_InvalidTextReturnsEncodingError ==
    call_op.op = "get_value"
        /\ TagAt(call_op.before, call_op.slot) = "String"
        /\ ~from_utf8_ok(call_op.before[call_op.slot + 1].v)
        => /\ (call_op.T \in {"str", "String"}
                  => status = "running" /\ call_op.outcome = "encoding_error")
           /\ (call_op.T = "Cow"
                  => /\ call_op.outcome = "ok"
                     /\ call_op.value =
                            Str(from_utf8_lossy(call_op.before[call_op.slot + 1].v)))

\* C17: a get_value::<T> or get_variable::<T> whose conversion fails leaves the
\* slot array as it was before the call: same slot count, same contents.
C17_FailedConversionLeavesSlots ==
    /\ (call_op.op = "get_value" /\ call_op.outcome # "ok"
            => slots = call_op.before)
    /\ (call_op.op = "get_variable" /\ call_op.outcome # "ok"
            => ~call_op.changed)

\* C18: when ensure_slots(n) grows the slot array from old to n slots, every
\* new slot old..n-1 holds Null when it returns, whatever the newly exposed
\* slot memory held, and the slots 0..old-1 hold what they held before.
C18_GrowthNullsNewSlots ==
    call_op.op = "ensure_slots" /\ call_op.n > Len(call_op.before)
        => /\ Len(slots) = call_op.n
           /\ \A i \in (Len(call_op.before) + 1)..call_op.n : slots[i] = Null
           /\ \A i \in 1..Len(call_op.before) : slots[i] = call_op.before[i]
           /\ Len(call_op.native) = call_op.n - Len(call_op.before)

\* WrenPtr::ensure_slots grew an array whose slot 0 was not Null by a slot
\* whose memory held a number.
C18_Witness ==
    /\ call_op.op = "ensure_slots"
    /\ draft = "wren2"
    /\ Len(call_op.before) >= 1
    /\ call_op.before[1] # Null
    /\ call_op.n > Len(call_op.before)
    /\ call_op.garbage # Null

\* C19: ensure_slots(n) with n at most the slot count changes nothing: the
\* slot count stays, every slot keeps its type and value, no native setter is
\* called; and no ensure_slots ever lowers the slot count.
C19_NonGrowingIsNoOp ==
    call_op.op = "ensure_slots"
        => /\ Len(slots) >= Len(call_op.before)
           /\ (call_op.n <= Len(call_op.before)
                  => slots = call_op.before /\ call_op.native = << >>)

\* RawWren::ensure_slots was called twice in a row with non-increasing n, the
\* second time with n below the slot count, over a slot that was not Null.
C19_Witness ==
    /\ call_op.op = "ensure_slots"
    /\ draft = "wren"
    /\ call_op.prev_n >= call_op.n
    /\ call_op.n < Len(call_op.before)
    /\ \E i \in 1..Len(call_op.before) : call_op.before[i] # Null

----------------------------------------------------------------------------
(* Claims about the pending error (checked under SpecError).               *)

\* C20: the header holds one pending error at most, and every Compile or
\* Runtime error callback replaces it by a fresh error (a Runtime one with an
\* empty stack trace), whatever was pending, frames included; so the pending
\* error is always the one the last Compile or Runtime callback opened, with
\* the frames added since.
C20_LastErrorReplacesPending ==
    /\ (err_op.op = "error_fn" /\ err_op.ty = "compile"
            => error = CompileError(to_string_lossy(CArgs(err_op.arg).module),
                                    CArgs(err_op.arg).line,
                                    to_string_lossy(CArgs(err_op.arg).message)))
    /\ (err_op.op = "error_fn" /\ err_op.ty = "runtime"
            => error = RuntimeError(to_string_lossy(CArgs(err_op.arg).message), << >>))
    /\ (error # NoError
            => /\ error.kind = err_op.opened.kind
               /\ error.message = err_op.opened.message)

\* A Runtime callback arrived while a runtime error with another message and
\* with frames was pending.
C20_Witness ==
    /\ err_op.op = "error_fn"
    /\ err_op.ty = "runtime"
    /\ err_op.before.kind = "runtime"
    /\ err_op.before.message # to_string_lossy(CArgs(err_op.arg).message)
    /\ err_op.before.stack_trace # << >>

\* The frame add_stacktrace is handed for the callback arguments a, were the
\* C strings taken as they are.
FrameAsPassed(a) == StackTrace(a.module, a.line, a.message)
\* The frame add_stacktrace is handed for the callback arguments a.
FrameStored(a) ==
    StackTrace(to_string_lossy(a.module), a.line, to_string_lossy(a.message))

\* The stack trace of the pending runtime error, or of the runtime error
\* take_error has just handed out.
TraceNow ==
    IF err_op.op = "take_error" /\ err_op.taken.kind = "runtime"
    THEN << err_op.taken.stack_trace >>
    ELSE IF error.kind = "runtime" THEN << error.stack_trace >> ELSE << >>

C22_StrayStackTracePanics ==
    err_op.op = "error_fn" /\ err_op.ty = "stack_trace"
        /\ err_op.before.kind # "runtime"
        => /\ status = "panic_explicit"
           /\ error = err_op.before
           /\ error.stack_trace = << >>

\* A stack-trace callback arrived while a compile error was pending.
C22_Witness ==
    /\ err_op.op = "error_fn"
    /\ err_op.ty = "stack_trace"
    /\ err_op.before.kind = "compile"
    /\ status = "panic_explicit"

\* The StructuredError the callbacks of one interpret call delivered: the
\* last Compile or Runtime callback and the frames after it, the C strings
\* converted as error_fn converts them.
DeliveredError(d) ==
    CASE d.head.ty = "compile" ->
            CompileError(to_string_lossy(CArgs(d.head.arg).module),
                         CArgs(d.head.arg).line,
                         to_string_lossy(CArgs(d.head.arg).message))
      [] d.head.ty = "runtime" ->
            RuntimeError(to_string_lossy(CArgs(d.head.arg).message),
                         [k \in 1..Len(d.passed) |-> FrameStored(d.passed[k])])
      [] OTHER -> NoError

\* C23: when the VM reports a compile (runtime) error for an interpret call
\* during which it delivered a Compile (Runtime) callback, interpret returns
\* Err of the Compile (Runtime) error with the module, line and message
\* (message and stack trace) the callbacks of that call delivered, and no
\* error is pending afterwards.
C23_InterpretReturnsDeliveredError ==
    err_op.op = "interpret" /\ err_op.result \in {"compile", "runtime"}
        /\ err_op.delivered.head.ty = err_op.result
        => /\ status = "running"
           /\ err_op.ret = Err(DeliveredError(err_op.delivered))
           /\ error = NoError

\* C24: for every compile-error or runtime-error result of the VM, whatever
\* error callbacks came before it, interpret (wren.rs) returns an Err value
\* and does not panic.
C24_ErrorResultsNeverPanic ==
    draft = "wren" /\ err_op.op = "interpret"
        /\ err_op.result \in {"compile", "runtime"}
        => /\ status = "running"
           /\ err_op.ret.tag = "Err"

\* C25: the bytes of every write callback reach the output sink the VM was
\* built with, unmodified.
C25_WritesReachConfiguredSink ==
    err_op.op = "write_fn" => err_op.sink = err_op.text

\* The descriptors registered for the pair (module, class).
Registered(module, class) ==
    {c \in ForeignClasses : c.module = module /\ c.name = class}

\* C26: bind_foreign_class returns, for a pair that has a ForeignClass, an
\* allocator for layout.size() bytes tagged with the class's type identity
\* and a finalizer that runs its destructor, and the pair (none, none) for a
\* pair that has none.
C26_BindForeignClassUsesRegistry ==
    err_op.op = "bind_foreign_class"
        => /\ \A c \in Registered(err_op.module, err_op.class) :
                  /\ err_op.ret.allocate = [fn |-> "allocate", size |-> c.layout.size,
                                          type_id |-> c.type_id]
                  /\ err_op.ret.finalize = c.drop_fn
           /\ (Registered(err_op.module, err_op.class) = {}
                  => err_op.ret = NoForeignMethods)

\* C27: every native slot operation the marshalling layer issues (put_value,
\* prepare, call, taking a Handle) has an index strictly below the slot count
\* of the VM at that moment.  The count never shrinks and a panic ends the
\* operation, so the count at the end is at least the count at each call and
\* equal to it for the last one.
C27_NativeIndexBelowSlotCount ==
    call_op.op \in MarshalOps \cup {"get_handle"}
        => \A k \in 1..Len(call_op.native) : call_op.native[k].slot < Len(slots)

\* The native reads of the last conversion.
ReadsNow ==
    IF call_op.op \in {"get_value", "get_variable", "get_slot"}
    THEN call_op.reads ELSE << >>

TypedAccessors == {"get_slot_bool", "get_slot_double", "get_slot_string"}

\* The slot type a typed accessor is for.
TypeFor(f) ==
    CASE f = "get_slot_bool" -> "Bool"
      [] f = "get_slot_double" -> "Num"
      [] OTHER -> "String"

\* C28: a typed accessor is called on a slot only directly after
\* get_slot_type was read for that same slot and returned the accessor's
\* type, and the slot has that type when the accessor reads it.
C28_TypedAccessorAfterTypeCheck ==
    \A k \in 1..Len(ReadsNow) :
        ReadsNow[k].f \in TypedAccessors
            => /\ k > 1
               /\ ReadsNow[k - 1].f = "get_slot_type"
               /\ ReadsNow[k - 1].slot = ReadsNow[k].slot
               /\ ReadsNow[k - 1].ty = TypeFor(ReadsNow[k].f)
               /\ ReadsNow[k].ty = TypeFor(ReadsNow[k].f)

\* A String slot was converted: get_slot_string was called.
C28_Witness ==
    /\ call_op.op = "get_value"
    /\ Len(ReadsNow) = 3
    /\ ReadsNow[3].f = "get_slot_string"
    /\ call_op.outcome = "ok"

\* C29: a write or error callback is no holder of the VM: when it returns,
\* the embedder payload has not been dropped, the reference count is the one
\* the VM was built with, and the VM and its allocation have not been freed.
C29_CallbacksHoldNothing ==
    err_op.op \in {"write_fn", "error_fn"}
        => /\ payload_drops = 0
           /\ ref_count = 1
           /\ vm_frees = 0
           /\ deallocs = 0

\* C30: a WrenAllocation made by new(L) reports layout() = L; L is stored in
\* the size_of::<Layout>() bytes right before the data pointer, inside the
\* block of the allocation, and stays there whatever allocations are made
\* and whatever data is written afterwards.
C30_LayoutRoundTrip ==
    /\ (alloc_op.op = "layout" => alloc_op.got = allocs[alloc_op.idx].asked)
    /\ \A i \in 1..Len(allocs) :
           /\ [at |-> allocs[i].data - size_of_Layout, val |-> allocs[i].asked] \in mem
           /\ allocs[i].base <= allocs[i].data - size_of_Layout
           /\ allocs[i].data + allocs[i].asked.size
                  <= allocs[i].base + allocs[i].full.size

\* layout() was read on the first of two allocations of different layouts,
\* the first over-aligned, after the second was made and the first's data was
\* filled.
C30_Witness ==
    /\ alloc_op.op = "layout"
    /\ alloc_op.idx = 1
    /\ Len(allocs) = 2
    /\ allocs[1].asked # allocs[2].asked
    /\ allocs[1].data - allocs[1].base > size_of_Layout

====
